---- MODULE Spec2Model ----
(***************************************************************************)
(* Model of node-pg-large-object: LargeObjectManager, LargeObject and the  *)
(* ReadStream / WriteStream adapters, run against a model of the           *)
(* PostgreSQL large-object functions the queries invoke and of the         *)
(* stream.Readable / stream.Writable base classes the adapters extend.     *)
(*                                                                         *)
(* Every query travels through the client's FIFO queue: an operation       *)
(* appends its query (the submission), Resolve executes the queue head     *)
(* against the store and runs the promise continuation that awaited it.    *)
(***************************************************************************)
EXTENDS Integers, Sequences, FiniteSets, TLC

\* ------------------------------------------------------------- bounds
MaxLen == 3      \* longest object content / buffer, in bytes
MaxOid == 2      \* object ids the store hands out: 1..MaxOid
MaxChunk == 2    \* largest bufferSize a manual stream is configured with
MaxCalls == 3    \* calls a caller makes without awaiting any of them

\* ------------------------------------------------- program constants
WRITE == 131072                 \* Mode.WRITE = 0x00020000
READ == 262144                  \* Mode.READ  = 0x00040000
READWRITE == 393216             \* Mode.READWRITE = WRITE | READ
SEEK_SET == 0
SEEK_CUR == 1
SEEK_END == 2
DefaultBufferSize == 16384      \* default bufferSize of both stream getters

Modes == {WRITE, READ, READWRITE}
Seeks == {SEEK_SET, SEEK_CUR, SEEK_END}

\* Byte values: 0 is what the store zero-fills with, 1 tells data from fill.
Bytes == {0, 1}

RECURSIVE SeqsUpTo(_)
SeqsUpTo(n) ==
  IF n = 0 THEN {<<>>}
  ELSE LET shorter == SeqsUpTo(n - 1)
       IN shorter \cup {Append(s, b) : s \in {t \in shorter : Len(t) = n - 1}, b \in Bytes}

Buffers == SeqsUpTo(MaxLen)

Min(a, b) == IF a < b THEN a ELSE b
Max(a, b) == IF a > b THEN a ELSE b

Zeros(n) == [i \in 1..n |-> 0]

\* ------------------------------------------------------------ errors
NoErr == [kind |-> "none", arg |-> 0]
DoesNotExist(oid) == [kind |-> "large object does not exist", arg |-> oid]
InvalidDescriptor(fd) == [kind |-> "invalid large-object descriptor", arg |-> fd]
NotWritable(fd) == [kind |-> "descriptor was not opened for writing", arg |-> fd]
InvalidSeek(fd) == [kind |-> "invalid seek target", arg |-> fd]
CallbackThrew == [kind |-> "callback threw", arg |-> 0]
MultipleCallback == [kind |-> "callback called multiple times", arg |-> 0]
ConnectionError == [kind |-> "connection failure", arg |-> 0]

\* --------------------------------------------- results of one query
\* rows[0] of the QueryResult: num is the single numeric column (fd, objectId,
\* location, position, size), data the bytea column of loread. Numeric columns
\* are integers here; how the driver decodes a bigint column is not modelled.
Ok(st, num, data) == [store |-> st, ok |-> TRUE, err |-> NoErr, num |-> num, data |-> data]
Fail(st, e) == [store |-> st, ok |-> FALSE, err |-> e, num |-> 0, data |-> <<>>]

\* ------------------------------------------ the store (PostgreSQL side)
\* st.lo: object id -> content, defined on the ids that exist;
\* st.fd: descriptor -> [oid, pos, writable], defined on the open descriptors
\*        (the store keeps lock flags: INV_WRITE grants reading and writing);
\* st.nextOid: the next id lo_creat hands out.
EmptyStore == [lo |-> <<>>, fd |-> <<>>, nextOid |-> 1]

HasWriteBit(mode) == (mode \div WRITE) % 2 = 1

\* The descriptor table hands out its lowest free slot.
NewFd(st) ==
  CHOOSE f \in 0..Cardinality(DOMAIN st.fd) :
    f \notin DOMAIN st.fd /\ \A g \in 0..(f - 1) : g \in DOMAIN st.fd

Put(f, k, v) == [x \in (DOMAIN f) \cup {k} |-> IF x = k THEN v ELSE f[x]]
Drop(f, ks) == [x \in (DOMAIN f) \ ks |-> f[x]]

Lo_creat(st, mode) ==
  Ok([st EXCEPT !.lo = Put(st.lo, st.nextOid, <<>>), !.nextOid = st.nextOid + 1],
     st.nextOid, <<>>)

Lo_open(st, oid, mode) ==
  IF oid \notin DOMAIN st.lo THEN Fail(st, DoesNotExist(oid))
  ELSE LET fd == NewFd(st)
       IN Ok([st EXCEPT !.fd = Put(st.fd, fd, [oid |-> oid, pos |-> 0,
                                               writable |-> HasWriteBit(mode)])],
             fd, <<>>)

Lo_unlink(st, oid) ==
  IF oid \notin DOMAIN st.lo THEN Fail(st, DoesNotExist(oid))
  ELSE Ok([st EXCEPT !.lo = Drop(st.lo, {oid}),
                     !.fd = Drop(st.fd, {f \in DOMAIN st.fd : st.fd[f].oid = oid})],
          1, <<>>)

Lo_close(st, fd) ==
  IF fd \notin DOMAIN st.fd THEN Fail(st, InvalidDescriptor(fd))
  ELSE Ok([st EXCEPT !.fd = Drop(st.fd, {fd})], 0, <<>>)

Loread(st, fd, length) ==
  IF fd \notin DOMAIN st.fd THEN Fail(st, InvalidDescriptor(fd))
  ELSE LET d == st.fd[fd]
           content == st.lo[d.oid]
           n == Max(0, Min(length, Len(content) - d.pos))
       IN Ok([st EXCEPT !.fd[fd].pos = d.pos + n], n,
             SubSeq(content, d.pos + 1, d.pos + n))

Lowrite(st, fd, buffer) ==
  IF fd \notin DOMAIN st.fd THEN Fail(st, InvalidDescriptor(fd))
  ELSE IF ~st.fd[fd].writable THEN Fail(st, NotWritable(fd))
  ELSE LET d == st.fd[fd]
           content == st.lo[d.oid]
           padded == IF d.pos > Len(content)
                     THEN content \o Zeros(d.pos - Len(content)) ELSE content
           after == d.pos + Len(buffer)
           written == SubSeq(padded, 1, d.pos) \o buffer
                        \o SubSeq(padded, after + 1, Len(padded))
       IN IF Len(buffer) = 0 THEN Ok(st, 0, <<>>)
          ELSE Ok([st EXCEPT !.lo[d.oid] = written, !.fd[fd].pos = after],
                  Len(buffer), <<>>)

Lo_lseek64(st, fd, offset, whence) ==
  IF fd \notin DOMAIN st.fd THEN Fail(st, InvalidDescriptor(fd))
  ELSE LET d == st.fd[fd]
           target == CASE whence = SEEK_SET -> offset
                       [] whence = SEEK_CUR -> d.pos + offset
                       [] whence = SEEK_END -> Len(st.lo[d.oid]) + offset
                       [] OTHER -> -1
       IN IF target < 0 THEN Fail(st, InvalidSeek(fd))
          ELSE Ok([st EXCEPT !.fd[fd].pos = target], target, <<>>)

Lo_tell64(st, fd) ==
  IF fd \notin DOMAIN st.fd THEN Fail(st, InvalidDescriptor(fd))
  ELSE Ok(st, st.fd[fd].pos, <<>>)

Lo_truncate64(st, fd, length) ==
  IF fd \notin DOMAIN st.fd THEN Fail(st, InvalidDescriptor(fd))
  ELSE IF ~st.fd[fd].writable THEN Fail(st, NotWritable(fd))
  ELSE LET d == st.fd[fd]
           content == st.lo[d.oid]
           cut == IF length <= Len(content) THEN SubSeq(content, 1, length)
                  ELSE content \o Zeros(length - Len(content))
       IN Ok([st EXCEPT !.lo[d.oid] = cut], 0, <<>>)

\* ------------------------------------------------ the queries the code sends
\* One parameterised query: op names the SQL text, a, b, c and buf its parameters.
Q(op, a, b, c, buf) == [op |-> op, a |-> a, b |-> b, c |-> c, buf |-> buf]

Manager_open(objectId, mode) == Q("lo_open", objectId, mode, 0, <<>>)
Manager_create == Q("lo_creat", READWRITE, 0, 0, <<>>)
Manager_unlink(objectId) == Q("lo_unlink", objectId, 0, 0, <<>>)

LargeObject_close(fd) == Q("lo_close", fd, 0, 0, <<>>)
\* A variant that asks for one byte less.
LargeObject_read_OffByOne(fd, length) == Q("loread", fd, length - 1, 0, <<>>)

LargeObject_read(fd, length) == Q("loread", fd, length, 0, <<>>)
LargeObject_write(fd, buffer) == Q("lowrite", fd, 0, 0, buffer)
LargeObject_seek(fd, position, ref) == Q("lo_lseek64", fd, position, ref, <<>>)
LargeObject_tell(fd) == Q("lo_tell64", fd, 0, 0, <<>>)
LargeObject_size(fd) == Q("size", fd, 0, 0, <<>>)
LargeObject_truncate(fd, length) == Q("lo_truncate64", fd, length, 0, <<>>)

\* A variant of the size() statement that never seeks back.
SizeQuery_NoSeekBack(st, fd) ==
  LET tell == Lo_tell64(st, fd)
  IN IF ~tell.ok THEN Fail(st, tell.err)
     ELSE LET seek == Lo_lseek64(tell.store, fd, 0, SEEK_END)
          IN IF ~seek.ok THEN Fail(st, seek.err)
             ELSE Ok(seek.store, seek.num, <<>>)

\* The statement size() sends: the innermost subquery records lo_tell64, the
\* middle one seeks to the end (its result is the size), the outer one seeks
\* back to the recorded location.
SizeQuery(st, fd) ==
  LET tell == Lo_tell64(st, fd)
  IN IF ~tell.ok THEN Fail(st, tell.err)
     ELSE LET seek == Lo_lseek64(tell.store, fd, 0, SEEK_END)
          IN IF ~seek.ok THEN Fail(st, seek.err)
             ELSE LET back == Lo_lseek64(seek.store, fd, tell.num, SEEK_SET)
                  IN IF ~back.ok THEN Fail(seek.store, back.err)
                     ELSE Ok(back.store, seek.num, <<>>)

\* The store running one statement.
Exec(st, q) ==
  CASE q.op = "lo_open" -> Lo_open(st, q.a, q.b)
    [] q.op = "lo_creat" -> Lo_creat(st, q.a)
    [] q.op = "lo_unlink" -> Lo_unlink(st, q.a)
    [] q.op = "lo_close" -> Lo_close(st, q.a)
    [] q.op = "loread" -> Loread(st, q.a, q.b)
    [] q.op = "lowrite" -> Lowrite(st, q.a, q.buf)
    [] q.op = "lo_lseek64" -> Lo_lseek64(st, q.a, q.b, q.c)
    [] q.op = "lo_tell64" -> Lo_tell64(st, q.a)
    [] q.op = "size" -> SizeQuery(st, q.a)
    [] q.op = "lo_truncate64" -> Lo_truncate64(st, q.a, q.b)

\* What the awaited method hands its caller: open, create, seek, tell and size
\* return the numeric column, read returns the data column, close, write,
\* truncate and unlink return nothing; a failed query rejects with its error.
NumOps == {"lo_open", "lo_creat", "lo_lseek64", "lo_tell64", "size"}

\* A variant that swallows a rejection and resolves with an empty row.
MethodResult_Swallowed(q, res) ==
  [op |-> q.op, a |-> q.a, ok |-> TRUE, err |-> NoErr,
   num |-> IF res.ok /\ q.op \in NumOps THEN res.num ELSE 0,
   data |-> IF res.ok /\ q.op = "loread" THEN res.data ELSE <<>>]

\* A variant that looks the bytes up under a column the statement does not
\* return, so that every read resolves with an empty buffer.
MethodResult_WrongColumn(q, res) ==
  [op |-> q.op, a |-> q.a,
   ok |-> res.ok, err |-> res.err,
   num |-> IF res.ok /\ q.op \in NumOps THEN res.num ELSE 0,
   data |-> <<>>]

MethodResult(q, res) ==
  [op |-> q.op, a |-> q.a,
   ok |-> res.ok, err |-> res.err,
   num |-> IF res.ok /\ q.op \in NumOps THEN res.num ELSE 0,
   data |-> IF res.ok /\ q.op = "loread" THEN res.data ELSE <<>>]

NoRet == [op |-> "none", a |-> 0, ok |-> TRUE, err |-> NoErr, num |-> 0, data |-> <<>>]

\* ---------------------------------------------------------------- state
VARIABLES
  store,     \* the large-object store: objects, open descriptors, id counter
  queue,     \* the client's query queue: <<[q, k]>>, k names who awaits the result
  reply,     \* the executor's answer to the query resolved last
  handles,   \* descriptors of the LargeObject instances the caller holds
  ret,       \* what the caller's last awaited call resolved or rejected with
  unlinked,  \* object ids whose unlink has completed
  test,      \* the 'Test Create and Write' script: its position and locals
  session,   \* the call that builds a stream: helper or manual, its position
  rs,        \* the ReadStream and the Readable state behind it
  ws,        \* the WriteStream and the Writable state behind it
  closes,    \* lo_close queries submitted so far
  log,       \* what console.error was given
  unhandled, \* errors thrown inside a promise callback nobody awaits
  sent,      \* queries submitted for the caller's current call
  short,     \* descriptors whose last read came back short, with nothing but
             \* reads, tell and size since (plain: truncate allowed as well)
  misuse,    \* the calls of _read and _write made with an illegal argument
  order      \* the queries of a caller that does not await, as called and as run

streamVars == <<session, rs, ws, closes, log, unhandled, misuse>>
callerVars == <<handles, ret, unlinked, sent, short, order>>
vars == <<store, queue, reply, handles, ret, unlinked, test, streamVars, sent, short,
          order>>

NoReply == [err |-> NoErr, fromStore |-> FALSE]

\* pg's client runs the queries of one connection one at a time, in submission order.
\* A variant that puts the query ahead of the ones already waiting.
Submit_Front(q, k) == <<[q |-> q, k |-> k]>> \o queue

Submit(q, k) == Append(queue, [q |-> q, k |-> k])

\* The executor's possible answers to a query: the store runs the statement,
\* or the connection fails it before it reaches the store.
Outcomes(st, q) ==
  {[res |-> Exec(st, q), fromStore |-> TRUE],
   [res |-> Fail(st, ConnectionError), fromStore |-> FALSE]}

\* -------------------------------------------- a caller using the API directly
\* The calls a caller may make next. It awaits each call before the next one and
\* closes a LargeObject before it opens another; a closed LargeObject stays in
\* its hands. The guards keep ids, positions and contents within the bounds.
PosOf(st, fd) == IF fd \in DOMAIN st.fd THEN st.fd[fd].pos ELSE 0

CallerBuffers == {Zeros(n) : n \in 0..MaxLen}

SeekInBounds(st, fd, p, r) ==
  LET res == Lo_lseek64(st, fd, p, r) IN ~res.ok \/ res.num <= MaxLen

CallerQueries ==
  (IF store.nextOid <= MaxOid THEN {Manager_create} ELSE {})
  \cup (IF DOMAIN store.fd = {}
        THEN {Manager_open(oid, mode) : oid \in 1..MaxOid, mode \in Modes} ELSE {})
  \cup {Manager_unlink(oid) : oid \in 1..MaxOid}
  \cup UNION {
         {LargeObject_close(fd), LargeObject_tell(fd), LargeObject_size(fd)}
         \cup {LargeObject_read(fd, n) : n \in 0..MaxLen}
         \cup {LargeObject_write(fd, b) :
                 b \in {x \in CallerBuffers : PosOf(store, fd) + Len(x) <= MaxLen}}
         \cup {LargeObject_seek(fd, pr[1], pr[2]) :
                 pr \in {x \in ((0 - MaxLen)..MaxLen) \X Seeks :
                           SeekInBounds(store, fd, x[1], x[2])}}
         \cup {LargeObject_truncate(fd, n) : n \in 0..MaxLen}
         : fd \in handles}

CallerCall ==
  /\ queue = <<>>
  /\ \E q \in CallerQueries : queue' = Submit(q, "caller")
  /\ ret' = NoRet
  /\ reply' = NoReply
  /\ sent' = 1
  /\ UNCHANGED <<store, handles, unlinked, test, streamVars, short, order>>

\* A variant that sends a rejected query once more.
Retry_Again(q, res) == IF res.ok THEN <<>> ELSE <<q>>

\* What a method sends after its awaited query has settled: nothing. No method
\* catches the rejection of its query, none sends a second one.
Retry(q, res) == <<>>

\* The descriptors at a short read's end once query q has settled with r.
ShortAfter(sh, q, r, st) ==
  LET open == DOMAIN st.fd
      plain == CASE q.op = "loread" /\ r.ok /\ Len(r.data) < q.b -> sh.plain \cup {q.a}
                 [] q.op \in {"lo_lseek64", "lowrite"} -> sh.plain \ {q.a}
                 [] OTHER -> sh.plain
      strict == CASE q.op = "loread" /\ r.ok /\ Len(r.data) < q.b -> sh.strict \cup {q.a}
                  [] q.op \in {"lo_lseek64", "lowrite", "lo_truncate64"} ->
                       sh.strict \ {q.a}
                  [] OTHER -> sh.strict
  IN [plain |-> plain \cap open, strict |-> strict \cap open]

NoShort == [plain |-> {}, strict |-> {}]

NoOrder == [invoked |-> <<>>, executed |-> <<>>]

\* The awaited promise settles: open wraps the descriptor in a new LargeObject.
CallerSettle(noting) ==
  /\ queue # <<>>
  /\ Head(queue).k = "caller"
  /\ \E o \in Outcomes(store, Head(queue).q) :
       LET q == Head(queue).q
           r == MethodResult(q, o.res)
       IN /\ store' = o.res.store
          /\ reply' = [err |-> o.res.err, fromStore |-> o.fromStore]
          /\ short' = IF noting THEN ShortAfter(short, q, r, o.res.store) ELSE short
          /\ IF Retry(q, o.res) = <<>>
             THEN /\ ret' = r
                  /\ handles' = IF r.op = "lo_open" /\ r.ok
                                 THEN handles \cup {r.num} ELSE handles
                  /\ unlinked' = IF r.op = "lo_unlink" /\ r.ok
                                  THEN unlinked \cup {q.a} ELSE unlinked
                  /\ queue' = Tail(queue)
                  /\ sent' = sent
             ELSE /\ queue' = Tail(queue)
                              \o [i \in 1..Len(Retry(q, o.res)) |->
                                    [q |-> Retry(q, o.res)[i], k |-> "caller"]]
                  /\ sent' = sent + Len(Retry(q, o.res))
                  /\ UNCHANGED <<ret, handles, unlinked>>
  /\ UNCHANGED <<test, streamVars, order>>

\* ------------------------------------------ the 'Test Create and Write' script
\* pc is the statement the test is at; len is the length the read asks for
\* (the size() result in the test, the buffer's length in the round trip).
NoTest == [pc |-> "off", testBuf |-> <<>>, objectId |-> 0, fd |-> 0,
           len |-> 0, data |-> <<>>, sized |-> FALSE]

TestQuery(t) ==
  CASE t.pc = "create" -> Manager_create
    [] t.pc = "openWrite" -> Manager_open(t.objectId, WRITE)
    [] t.pc = "write" -> LargeObject_write(t.fd, t.testBuf)
    [] t.pc = "closeWrite" -> LargeObject_close(t.fd)
    [] t.pc = "openRead" -> Manager_open(t.objectId, READ)
    [] t.pc = "size" -> LargeObject_size(t.fd)
    [] t.pc = "read" -> LargeObject_read(t.fd, t.len)
    [] t.pc = "closeRead" -> LargeObject_close(t.fd)
    [] t.pc = "unlink" -> Manager_unlink(t.objectId)
    [] t.pc = "openGone" -> Manager_open(t.objectId, READ)

TestSteps == {"create", "openWrite", "write", "closeWrite", "openRead", "size",
              "read", "closeRead", "unlink", "openGone"}

\* The test after the awaited call of statement t.pc resolved with r.
TestAfter(t, r) ==
  CASE t.pc = "create" -> {[t EXCEPT !.pc = "openWrite", !.objectId = r.num]}
    [] t.pc = "openWrite" -> {[t EXCEPT !.pc = "write", !.fd = r.num]}
    [] t.pc = "write" -> {[t EXCEPT !.pc = "closeWrite"]}
    [] t.pc = "closeWrite" -> {[t EXCEPT !.pc = "openRead"]}
    [] t.pc = "openRead" -> {[t EXCEPT !.pc = "size", !.fd = r.num],
                             [t EXCEPT !.pc = "read", !.fd = r.num,
                                       !.len = Len(t.testBuf)]}
    [] t.pc = "size" -> {[t EXCEPT !.pc = "read", !.len = r.num, !.sized = TRUE]}
    [] t.pc = "read" -> {[t EXCEPT !.pc = "closeRead", !.data = r.data]}
    [] t.pc = "closeRead" -> {[t EXCEPT !.pc = "unlink"]}
    [] t.pc = "unlink" -> {[t EXCEPT !.pc = "openGone"]}
    [] t.pc = "openGone" -> {[t EXCEPT !.pc = "failed"]}

\* An awaited call that rejects throws out of the test, except the last open,
\* which is expected to reject with 'large object <id> does not exist'.
TestRejected(t, r) ==
  IF t.pc = "openGone" /\ r.err = DoesNotExist(t.objectId)
  THEN [t EXCEPT !.pc = "passed"]
  ELSE [t EXCEPT !.pc = "failed"]

TestCall ==
  /\ test.pc \in TestSteps
  /\ queue = <<>>
  /\ queue' = Submit(TestQuery(test), "test")
  /\ UNCHANGED <<store, reply, callerVars, test, streamVars>>

TestResolve ==
  /\ queue # <<>>
  /\ Head(queue).k = "test"
  /\ \E o \in Outcomes(store, Head(queue).q) :
       LET r == MethodResult(Head(queue).q, o.res)
       IN /\ store' = o.res.store
          /\ reply' = [err |-> o.res.err, fromStore |-> o.fromStore]
          /\ IF r.ok THEN test' \in TestAfter(test, r)
                     ELSE test' = TestRejected(test, r)
  /\ queue' = Tail(queue)
  /\ UNCHANGED <<callerVars, streamVars>>

\* ------------------------------------------------------------ the streams
\* Readable's state behind a ReadStream: reading is set while a _read call
\* awaits its push, ended once push(null) was called; pushed is every byte
\* pushed so far and consumed how many of them the consumer has taken; onEnd
\* counts the once('end') listeners, listening tells an 'error' listener is on.
NoReadStream ==
  [made |-> FALSE, fd |-> 0, hwm |-> 0, reading |-> FALSE, ended |-> FALSE,
   eofs |-> 0, pushed |-> <<>>, consumed |-> 0, endEmitted |-> FALSE,
   errors |-> <<>>, onEnd |-> 0, listening |-> FALSE, thrown |-> FALSE,
   shorts |-> 0]

\* Writable's state behind a WriteStream: writing is set while a _write call
\* awaits its callback, buffered holds the chunks written meanwhile, ending is
\* set by end(), finished once 'finish' was emitted; todo is what the producer
\* has yet to write; onFinish counts the once('finish') listeners; thrown is
\* set once a _write call has thrown. issued lists the buffers of the remote
\* writes sent so far and calls, for each of them that has settled, how many
\* times its callback was invoked.
NoWriteStream ==
  [made |-> FALSE, fd |-> 0, hwm |-> 0, writing |-> FALSE, buffered |-> <<>>,
   ending |-> FALSE, finished |-> FALSE, errors |-> <<>>, onFinish |-> 0,
   todo |-> <<>>, thrown |-> FALSE, issued |-> <<>>, calls |-> <<>>]

GetReadableStream(fd, bufferSize) ==
  [NoReadStream EXCEPT !.made = TRUE, !.fd = fd, !.hwm = bufferSize]

GetWritableStream(fd, bufferSize) ==
  [NoWriteStream EXCEPT !.made = TRUE, !.fd = fd, !.hwm = bufferSize]

\* A variant that registers the closing listener twice.
OpenAndReadableStream_stream_Twice(fd) ==
  [GetReadableStream(fd, DefaultBufferSize) EXCEPT !.onEnd = 2]

\* The stream openAndReadableStream returns: default buffer size, one
\* once('end') listener that closes the object.
OpenAndReadableStream_stream(fd) ==
  [GetReadableStream(fd, DefaultBufferSize) EXCEPT !.onEnd = 1]

\* A variant that registers no closing listener.
CreateAndWritableStream_stream_NoHook(fd) == GetWritableStream(fd, DefaultBufferSize)

\* The stream createAndWritableStream returns: default buffer size, one
\* once('finish') listener that closes the object.
CreateAndWritableStream_stream(fd) ==
  [GetWritableStream(fd, DefaultBufferSize) EXCEPT !.onFinish = 1]

\* A variant without the check of the length.
ReadStream_read_NoCheck(r, qu, length) ==
  [rs |-> r,
   queue |-> Append(qu, [q |-> LargeObject_read(r.fd, length), k |-> "rs"])]

\* ReadStream._read(length): a non-positive length throws; otherwise one read
\* is submitted, whose promise the stream continues on.
ReadStream_read(r, qu, length) ==
  IF length <= 0 THEN [rs |-> [r EXCEPT !.thrown = TRUE], queue |-> qu]
  ELSE [rs |-> r,
        queue |-> Append(qu, [q |-> LargeObject_read(r.fd, length), k |-> "rs"])]

\* Readable.push(chunk) called outside _read: the pending read is over.
Push(r, data) == [r EXCEPT !.reading = FALSE, !.pushed = r.pushed \o data]

\* Readable.push(null): no more data.
PushNull(r) == [r EXCEPT !.reading = FALSE, !.ended = TRUE, !.eofs = r.eofs + 1]

\* A variant that never signals the end.
ReadStream_onData_NeverEnds(r, data, length) == Push(r, data)

\* A variant that takes a full read for the end too.
ReadStream_onData_EndsOnFull(r, data, length) ==
  IF Len(data) <= length THEN PushNull(Push(r, data)) ELSE Push(r, data)

\* The .then callback of _read: push the data; a short read is the end.
ReadStream_onData(r, data, length) ==
  IF Len(data) < length THEN PushNull(Push(r, data)) ELSE Push(r, data)

\* emit('error', e): the listeners get e; with no listener emit throws e.
EmitError(r, e) == [r EXCEPT !.errors = Append(r.errors, e)]

\* A variant that ends the stream instead of emitting the error.
ReadStream_onError_Ends(r, error) == PushNull(r)

\* The .catch callback of _read.
ReadStream_onError(r, error) == EmitError(r, error)

\* A variant that calls the callback before the write has resolved.
WriteStream_write_EarlyCallback(w, qu, chunk) ==
  [ws |-> [w EXCEPT !.writing = FALSE],
   queue |-> Append(qu, [q |-> LargeObject_write(w.fd, chunk), k |-> "ws"])]

\* Buffer.isBuffer(chunk). A chunk that is no Buffer (a string, say) is a
\* sequence holding something that is no byte.
IsBuffer(chunk) == \A i \in DOMAIN chunk : chunk[i] \in Bytes
NonBufferChunk == <<-1>>

\* A variant that leaves the first byte of every chunk out.
WriteStream_write_SkipsFirstByte(w, qu, chunk) ==
  IF ~IsBuffer(chunk) THEN [ws |-> [w EXCEPT !.thrown = TRUE], queue |-> qu]
  ELSE [ws |-> [w EXCEPT !.writing = TRUE],
        queue |-> Append(qu, [q |-> LargeObject_write(w.fd, Tail(chunk)), k |-> "ws"])]

\* WriteStream._write(chunk, encoding, callback): a chunk that is no Buffer
\* throws; otherwise one write is submitted, the callback waits for its promise.
WriteStream_write(w, qu, chunk) ==
  IF ~IsBuffer(chunk) THEN [ws |-> [w EXCEPT !.thrown = TRUE], queue |-> qu]
  ELSE [ws |-> [w EXCEPT !.writing = TRUE],
        queue |-> Append(qu, [q |-> LargeObject_write(w.fd, chunk), k |-> "ws"])]

\* What the callback of _write is invoked with, in order, once the write has
\* settled with r: .then(() => callback()).catch(callback). The catch also
\* takes what callback() itself throws, and hands it to callback again.
WriteStream_callbacks(r, throws) ==
  IF ~r.ok THEN <<r.err>>
  ELSE IF throws THEN <<NoErr, CallbackThrew>>
  ELSE <<NoErr>>

\* The callback Writable passes to _write, invoked with er. With no write
\* pending it reports a callback invoked twice; with an error it errors the
\* stream and drops what is buffered; otherwise the next buffered chunk goes to
\* _write. A stream that has errored already takes no notice.
Writable_onwrite(w, qu, er) ==
  IF w.errors # <<>> THEN [ws |-> [w EXCEPT !.writing = FALSE], queue |-> qu]
  ELSE IF ~w.writing
  THEN [ws |-> [w EXCEPT !.errors = Append(w.errors, MultipleCallback),
                         !.buffered = <<>>],
        queue |-> qu]
  ELSE IF er # NoErr
  THEN [ws |-> [w EXCEPT !.writing = FALSE, !.errors = Append(w.errors, er),
                         !.buffered = <<>>],
        queue |-> qu]
  ELSE IF w.buffered # <<>>
  THEN WriteStream_write([w EXCEPT !.writing = FALSE, !.buffered = Tail(w.buffered)],
                         qu, Head(w.buffered))
  ELSE [ws |-> [w EXCEPT !.writing = FALSE], queue |-> qu]

\* The buffers of the remote writes that were added to the queue.
NewWrites(before, after) ==
  [i \in 1..(Len(after) - Len(before)) |-> after[Len(before) + i].q.buf]

\* A variant without the try/catch: the failure leaves the listener's promise.
AutoClose_onFailure_Rethrown(lg, unh, error) ==
  [log |-> lg, unhandled |-> Append(unh, error)]

\* The listener both helpers register: close the object, and on a failure of
\* that close only console.error it.
AutoClose_onFailure(lg, unh, error) == [log |-> Append(lg, error), unhandled |-> unh]

\* ------------------------------------------ building a stream (the session)
\* kind: "openAndReadableStream", "createAndWritableStream", or the manual
\* "getReadableStream" / "getWritableStream" on a LargeObject the caller opened.
ReadKinds == {"openAndReadableStream", "getReadableStream"}
WriteKinds == {"createAndWritableStream", "getWritableStream"}

NoSession == [kind |-> "none", pc |-> "off", objectId |-> 0, fd |-> 0, size |-> 0,
              err |-> NoErr, bufferSize |-> 0, listen |-> FALSE, chunks |-> <<>>]

SessionQuery(s) ==
  CASE s.pc = "create" -> Manager_create
    [] s.pc = "open" -> Manager_open(s.objectId,
                           IF s.kind \in ReadKinds THEN READ ELSE WRITE)
    [] s.pc = "size" -> LargeObject_size(s.fd)

SessionCall ==
  /\ session.pc \in {"create", "open", "size"}
  /\ queue = <<>>
  /\ queue' = Submit(SessionQuery(session), "session")
  /\ UNCHANGED <<store, reply, callerVars, test, streamVars>>

\* The consumer's and producer's own wiring of the stream they were handed.
Wired(r, s) == [r EXCEPT !.listening = s.listen]
Loaded(w, s) == [w EXCEPT !.todo = s.chunks]

\* The session after its awaited call resolved with r: <<session, rs, ws>>.
SessionAfter(s, r) ==
  CASE s.pc = "create" -> <<[s EXCEPT !.pc = "open", !.objectId = r.num], rs, ws>>
    [] s.pc = "open" /\ s.kind = "openAndReadableStream" ->
         <<[s EXCEPT !.pc = "size", !.fd = r.num], rs, ws>>
    [] s.pc = "open" /\ s.kind = "getReadableStream" ->
         <<[s EXCEPT !.pc = "returned", !.fd = r.num],
           Wired(GetReadableStream(r.num, s.bufferSize), s), ws>>
    [] s.pc = "open" /\ s.kind = "createAndWritableStream" ->
         <<[s EXCEPT !.pc = "returned", !.fd = r.num],
           rs, Loaded(CreateAndWritableStream_stream(r.num), s)>>
    [] s.pc = "open" /\ s.kind = "getWritableStream" ->
         <<[s EXCEPT !.pc = "returned", !.fd = r.num],
           rs, Loaded(GetWritableStream(r.num, s.bufferSize), s)>>
    [] s.pc = "size" ->
         <<[s EXCEPT !.pc = "returned", !.size = r.num],
           Wired(OpenAndReadableStream_stream(s.fd), s), ws>>

SessionResolve ==
  /\ queue # <<>>
  /\ Head(queue).k = "session"
  /\ \E o \in Outcomes(store, Head(queue).q) :
       LET r == MethodResult(Head(queue).q, o.res)
       IN /\ store' = o.res.store
          /\ reply' = [err |-> o.res.err, fromStore |-> o.fromStore]
          /\ IF r.ok
             THEN LET after == SessionAfter(session, r)
                  IN session' = after[1] /\ rs' = after[2] /\ ws' = after[3]
             ELSE /\ session' = [session EXCEPT !.pc = "rejected", !.err = r.err]
                  /\ UNCHANGED <<rs, ws>>
  /\ queue' = Tail(queue)
  /\ UNCHANGED <<callerVars, test, misuse, closes, log, unhandled>>

\* ----------------------------------------------------- Readable at work
Buffered(r) == Len(r.pushed) - r.consumed

\* Readable asks for data: not while a read is pending, not after the end,
\* and only while its buffer is below the high-water mark.
ReadableRead ==
  /\ rs.made /\ ~rs.reading /\ ~rs.ended
  /\ Buffered(rs) < rs.hwm \/ Buffered(rs) = 0
  /\ LET out == ReadStream_read([rs EXCEPT !.reading = TRUE], queue, rs.hwm)
     IN rs' = out.rs /\ queue' = out.queue
  /\ UNCHANGED <<store, reply, callerVars, test, misuse, session, ws, closes,
                 log, unhandled>>

\* The promise of the read settles.
ReadStreamResolve ==
  /\ queue # <<>>
  /\ Head(queue).k = "rs"
  /\ \E o \in Outcomes(store, Head(queue).q) :
       LET q == Head(queue).q
           r == MethodResult(q, o.res)
       IN /\ store' = o.res.store
          /\ reply' = [err |-> o.res.err, fromStore |-> o.fromStore]
          /\ IF r.ok
             THEN /\ rs' = [ReadStream_onData(rs, r.data, q.b) EXCEPT
                           !.shorts = IF Len(r.data) < q.b THEN @ + 1 ELSE @]
                  /\ unhandled' = unhandled
             ELSE /\ rs' = ReadStream_onError(rs, r.err)
                  /\ unhandled' = IF rs.listening THEN unhandled
                                  ELSE Append(unhandled, r.err)
  /\ queue' = Tail(queue)
  /\ UNCHANGED <<callerVars, test, misuse, session, ws, closes, log>>

\* The consumer takes buffered bytes.
Consume ==
  /\ rs.made
  /\ \E n \in 1..Buffered(rs) : rs' = [rs EXCEPT !.consumed = rs.consumed + n]
  /\ UNCHANGED <<store, queue, reply, callerVars, test, misuse, session, ws,
                 closes, log, unhandled>>

\* 'end' is emitted once the buffer has drained after push(null); each
\* once('end') listener runs and submits its close.
RECURSIVE SubmitCloses(_, _, _)
SubmitCloses(qu, fd, n) ==
  IF n = 0 THEN qu
  ELSE SubmitCloses(Append(qu, [q |-> LargeObject_close(fd), k |-> "hook"]), fd, n - 1)

EmitEnd ==
  /\ rs.made /\ rs.ended /\ ~rs.endEmitted /\ Buffered(rs) = 0
  /\ rs' = [rs EXCEPT !.endEmitted = TRUE, !.onEnd = 0]
  /\ queue' = SubmitCloses(queue, rs.fd, rs.onEnd)
  /\ closes' = closes + rs.onEnd
  /\ UNCHANGED <<store, reply, callerVars, test, misuse, session, ws, log,
                 unhandled>>

\* ----------------------------------------------------- Writable at work
\* The producer writes its next chunk: Writable hands it to _write at once
\* when no write is pending, and buffers it otherwise.
WritableWrite ==
  /\ ws.made /\ ~ws.ending /\ ws.errors = <<>> /\ ws.todo # <<>>
  /\ LET chunk == Head(ws.todo)
         w == [ws EXCEPT !.todo = Tail(ws.todo)]
     IN IF ~ws.writing
        THEN LET out == WriteStream_write(w, queue, chunk)
             IN /\ ws' = [out.ws EXCEPT !.issued = @ \o NewWrites(queue, out.queue)]
                /\ queue' = out.queue
        ELSE /\ ws' = [w EXCEPT !.buffered = Append(ws.buffered, chunk)]
             /\ queue' = queue
  /\ UNCHANGED <<store, reply, callerVars, test, misuse, session, rs, closes,
                 log, unhandled>>

\* The producer calls end().
WritableEnd ==
  /\ ws.made /\ ~ws.ending /\ ws.todo = <<>>
  /\ ws' = [ws EXCEPT !.ending = TRUE]
  /\ UNCHANGED <<store, queue, reply, callerVars, test, misuse, session, rs,
                 closes, log, unhandled>>

\* The callback runs the producer's own callbacks and listeners, which may
\* throw; on a stream that has errored it runs none.
CallbackMayThrow(w) == IF w.errors = <<>> THEN BOOLEAN ELSE {FALSE}

\* The promise of the write settles and the callback is invoked, as often as
\* the then/catch chain of _write does it.
WriteStreamResolve ==
  /\ queue # <<>>
  /\ Head(queue).k = "ws"
  /\ \E o \in Outcomes(store, Head(queue).q), throws \in CallbackMayThrow(ws) :
       LET r == MethodResult(Head(queue).q, o.res)
           cbs == WriteStream_callbacks(r, throws)
           first == Writable_onwrite(ws, Tail(queue), cbs[1])
           last == IF Len(cbs) = 1 THEN first
                   ELSE Writable_onwrite(first.ws, first.queue, cbs[2])
       IN /\ store' = o.res.store
          /\ reply' = [err |-> o.res.err, fromStore |-> o.fromStore]
          /\ ws' = [last.ws EXCEPT !.calls = Append(@, Len(cbs)),
                                   !.issued = @ \o NewWrites(Tail(queue), last.queue)]
          /\ queue' = last.queue
  /\ UNCHANGED <<callerVars, test, misuse, session, rs, closes, log, unhandled>>

\* 'finish' is emitted once end() was called and every write has completed;
\* each once('finish') listener runs and submits its close.
EmitFinish ==
  /\ ws.made /\ ws.ending /\ ~ws.finished
  /\ ~ws.writing /\ ws.buffered = <<>> /\ ws.errors = <<>>
  /\ ws' = [ws EXCEPT !.finished = TRUE, !.onFinish = 0]
  /\ queue' = SubmitCloses(queue, ws.fd, ws.onFinish)
  /\ closes' = closes + ws.onFinish
  /\ UNCHANGED <<store, reply, callerVars, test, misuse, session, rs, log,
                 unhandled>>

\* The close an auto-close listener awaits settles.
AutoCloseResolve ==
  /\ queue # <<>>
  /\ Head(queue).k = "hook"
  /\ \E o \in Outcomes(store, Head(queue).q) :
       /\ store' = o.res.store
       /\ reply' = [err |-> o.res.err, fromStore |-> o.fromStore]
       /\ IF o.res.ok THEN UNCHANGED <<log, unhandled>>
          ELSE LET out == AutoClose_onFailure(log, unhandled, o.res.err)
               IN log' = out.log /\ unhandled' = out.unhandled
  /\ queue' = Tail(queue)
  /\ UNCHANGED <<callerVars, test, misuse, session, rs, ws, closes>>

\* Somebody calls _read with a length that is not positive, or _write with a
\* chunk that is no Buffer, on the stream directly.
MisuseRead ==
  /\ rs.made /\ ~misuse.read
  /\ \E length \in {-1, 0} :
       LET out == ReadStream_read(rs, queue, length)
       IN rs' = out.rs /\ queue' = out.queue
  /\ misuse' = [misuse EXCEPT !.read = TRUE]
  /\ UNCHANGED <<store, reply, callerVars, test, session, ws, closes, log, unhandled>>

MisuseWrite ==
  /\ ws.made /\ ~misuse.write
  /\ LET out == WriteStream_write(ws, queue, NonBufferChunk)
     IN /\ ws' = [out.ws EXCEPT !.issued = @ \o NewWrites(queue, out.queue)]
        /\ queue' = out.queue
  /\ misuse' = [misuse EXCEPT !.write = TRUE]
  /\ UNCHANGED <<store, reply, callerVars, test, session, rs, closes, log, unhandled>>

NoMisuse == [read |-> FALSE, write |-> FALSE]

\* The chunk lists a producer writes: non-empty chunks, MaxLen bytes in all.
RECURSIVE ChunkLists(_)
ChunkLists(room) ==
  {<<>>} \cup UNION {{<<c>> \o rest : rest \in ChunkLists(room - Len(c))} :
                       c \in {b \in Buffers : Len(b) >= 1 /\ Len(b) <= room}}

\* An object with some content is there for the reading sessions to open.
StoreWith(content) == [lo |-> <<content>>, fd |-> <<>>, nextOid |-> 2]

Sessions ==
  {[NoSession EXCEPT !.kind = "openAndReadableStream", !.pc = "open",
                     !.objectId = 1, !.listen = l] : l \in BOOLEAN}
  \cup {[NoSession EXCEPT !.kind = "getReadableStream", !.pc = "open", !.objectId = 1,
                          !.bufferSize = n, !.listen = l] :
          n \in 1..MaxChunk, l \in BOOLEAN}
  \cup {[NoSession EXCEPT !.kind = "createAndWritableStream", !.pc = "create",
                          !.chunks = c] : c \in ChunkLists(MaxLen)}
  \cup {[NoSession EXCEPT !.kind = "getWritableStream", !.pc = "create",
                          !.bufferSize = n, !.chunks = c] :
          n \in 1..MaxChunk, c \in ChunkLists(MaxLen)}

InitStreams ==
  /\ session \in Sessions
  /\ \E content \in Buffers :
       /\ store = StoreWith(content)
       /\ session.kind \in WriteKinds => content = <<>>
  /\ queue = <<>>
  /\ reply = NoReply
  /\ handles = {}
  /\ ret = NoRet
  /\ unlinked = {}
  /\ sent = 0
  /\ short = NoShort
  /\ order = NoOrder
  /\ test = NoTest
  /\ rs = NoReadStream
  /\ ws = NoWriteStream
  /\ closes = 0
  /\ log = <<>>
  /\ unhandled = <<>>
  /\ misuse = NoMisuse

NextStreams ==
  \/ SessionCall \/ SessionResolve
  \/ ReadableRead \/ ReadStreamResolve \/ Consume \/ EmitEnd
  \/ WritableWrite \/ WritableEnd \/ WriteStreamResolve \/ EmitFinish
  \/ AutoCloseResolve
  \/ MisuseRead \/ MisuseWrite

SpecStreams == InitStreams /\ [][NextStreams]_vars

\* Node runs every callback that is due and the consumer keeps taking data.
SpecStreamsLive == SpecStreams /\ WF_vars(NextStreams)

\* The awaited call settles; the second form also notes the short reads.
CallerResolve == CallerSettle(FALSE)
CallerResolveNoting == CallerSettle(TRUE)

NoStreams ==
  /\ session = NoSession
  /\ rs = NoReadStream
  /\ ws = NoWriteStream
  /\ closes = 0
  /\ log = <<>>
  /\ unhandled = <<>>
  /\ misuse = NoMisuse

InitTest ==
  /\ store = EmptyStore
  /\ queue = <<>>
  /\ reply = NoReply
  /\ handles = {}
  /\ ret = NoRet
  /\ unlinked = {}
  /\ sent = 0
  /\ short = NoShort
  /\ order = NoOrder
  /\ \E b \in Buffers : test = [NoTest EXCEPT !.pc = "create", !.testBuf = b]
  /\ NoStreams

NextTest == TestCall \/ TestResolve

SpecTest == InitTest /\ [][NextTest]_vars

Init ==
  /\ store = EmptyStore
  /\ queue = <<>>
  /\ reply = NoReply
  /\ handles = {}
  /\ ret = NoRet
  /\ unlinked = {}
  /\ sent = 0
  /\ short = NoShort
  /\ order = NoOrder
  /\ test = NoTest
  /\ NoStreams

Next == CallerCall \/ CallerResolve

Spec == Init /\ [][Next]_vars

NextReads == CallerCall \/ CallerResolveNoting

SpecReads == Init /\ [][NextReads]_vars

\* ------------------------------------ a caller that does not await its calls
\* Every method is an async function whose first statement evaluates
\* this.query(...): the query is on the connection when the call returns its
\* promise, so a caller may have several calls of one LargeObject in flight.
PipelinedQueries ==
  {LargeObject_close(0), LargeObject_tell(0), LargeObject_size(0),
   LargeObject_read(0, 1), LargeObject_write(0, <<0>>),
   LargeObject_seek(0, 0, SEEK_END), LargeObject_truncate(0, 0)}

PipelinedCall ==
  /\ Len(order.invoked) < MaxCalls
  /\ \E q \in PipelinedQueries :
       /\ queue' = Submit(q, "pipelined")
       /\ order' = [order EXCEPT !.invoked = Append(@, q)]
  /\ UNCHANGED <<store, reply, handles, ret, unlinked, sent, short, test, streamVars>>

PipelinedResolve ==
  /\ queue # <<>>
  /\ Head(queue).k = "pipelined"
  /\ LET q == Head(queue).q IN
     \E o \in Outcomes(store, q) :
       /\ store' = o.res.store
       /\ reply' = [err |-> o.res.err, fromStore |-> o.fromStore]
       /\ ret' = MethodResult(q, o.res)
       /\ order' = [order EXCEPT !.executed = Append(@, q)]
  /\ queue' = Tail(queue)
  /\ UNCHANGED <<handles, unlinked, sent, short, test, streamVars>>

\* One LargeObject open for writing on an object of some length.
InitPipelined ==
  /\ \E n \in 0..MaxLen :
       store = [StoreWith(Zeros(n)) EXCEPT
                  !.fd = (0 :> [oid |-> 1, pos |-> 0, writable |-> TRUE])]
  /\ queue = <<>>
  /\ reply = NoReply
  /\ handles = {0}
  /\ ret = NoRet
  /\ unlinked = {}
  /\ sent = 0
  /\ short = NoShort
  /\ order = NoOrder
  /\ test = NoTest
  /\ NoStreams

NextPipelined == PipelinedCall \/ PipelinedResolve

SpecPipelined == InitPipelined /\ [][NextPipelined]_vars

\* ---------------------------------------------------------------- claims

\* C1: round trip. Once the script create, open(WRITE), write(B), close,
\* open(READ), read(len(B)) has run, the buffer read equals B (and so it does
\* when the length read is the one size() reported, as the test does).
RoundTripReadsBack ==
  test.pc \in {"closeRead", "unlink", "openGone", "passed"} => test.data = test.testBuf

RoundTripDone ==
  /\ test.pc = "unlink"
  /\ ~test.sized
  /\ Len(test.testBuf) = MaxLen
  /\ test.data = test.testBuf

\* C2: once unlink(id) has resolved, an open(id, mode) never resolves and never
\* yields a LargeObject: it rejects with exactly the error the executor gave,
\* which is the store's does-not-exist error whenever the store ran the query.
OpenAfterUnlinkFails ==
  [][(/\ queue # <<>>
      /\ Head(queue).k = "caller"
      /\ Head(queue).q.op = "lo_open"
      /\ Head(queue).q.a \in unlinked
      /\ queue' = Tail(queue))
     => (/\ ~ret'.ok
         /\ handles' = handles
         /\ ret'.err = reply'.err
         /\ (reply'.fromStore => ret'.err = DoesNotExist(Head(queue).q.a)))]_vars

OpenAfterUnlinkRejected ==
  /\ ret.op = "lo_open"
  /\ ret.a \in unlinked
  /\ reply.fromStore
  /\ ret.err = DoesNotExist(ret.a)
  /\ store.lo # <<>>

\* C7: size() resolves with the object's byte length and leaves the position
\* where it was: tell() right after it answers what tell() right before did.
SizePreservesPosition ==
  [][(/\ queue # <<>>
      /\ Head(queue).k = "caller"
      /\ Head(queue).q.op = "size"
      /\ queue' = Tail(queue)
      /\ ret'.ok)
     => LET fd == Head(queue).q.a
        IN /\ Lo_tell64(store', fd) = [Lo_tell64(store, fd) EXCEPT !.store = store']
           /\ ret'.num = Len(store.lo[store.fd[fd].oid])]_vars

SizeAtInnerPosition ==
  /\ ret.op = "size"
  /\ ret.ok
  /\ PosOf(store, ret.a) > 0
  /\ PosOf(store, ret.a) < ret.num

\* ------------------------------------------------- claims on the streams
Outstanding(k) == Cardinality({i \in 1..Len(queue) : queue[i].k = k})

\* The step in which the query at the head of the queue, awaited by k, settles:
\* the only steps that take the head off the queue.
Settles(k) ==
  /\ queue # <<>>
  /\ Head(queue).k = k
  /\ queue' # queue
  /\ Len(queue') <= Len(queue)

ObjectContent == store.lo[session.objectId]

\* What a ReadStream from getReadableStream has pushed, at any moment.
ReadStreamSafety ==
  (session.kind = "getReadableStream" /\ rs.made) =>
     /\ Len(rs.pushed) <= Len(ObjectContent)
     /\ rs.pushed = SubSeq(ObjectContent, 1, Len(rs.pushed))
     /\ rs.eofs = (IF rs.ended THEN 1 ELSE 0)
     /\ rs.ended => rs.pushed = ObjectContent
     /\ rs.endEmitted => rs.consumed = Len(ObjectContent)

\* C3: a ReadStream from getReadableStream(N), N >= 1, over an object opened at
\* position 0 pushes the object's bytes in order and nothing else, calls
\* push(null) only once everything was pushed and only once, and, unless a
\* read or the open fails, does reach that end; also for an empty object and
\* for a size that is a multiple of N.
ReadStreamEmitsObject ==
  /\ []ReadStreamSafety
  /\ <>(session.kind = "getReadableStream"
          => (rs.endEmitted \/ rs.errors # <<>> \/ session.pc = "rejected"))

ReadStreamEndedOnMultiple ==
  /\ session.kind = "getReadableStream"
  /\ rs.hwm = 1
  /\ rs.endEmitted
  /\ rs.pushed = ObjectContent
  /\ Len(rs.pushed) = MaxLen

\* C4: the stream of createAndWritableStream has caused no close before its
\* 'finish' and exactly one from it on; a stream from getWritableStream
\* causes none at all.
WriteStreamCloseCount ==
  /\ session.kind = "createAndWritableStream" => closes = (IF ws.finished THEN 1 ELSE 0)
  /\ session.kind = "getWritableStream" => closes = 0

AutoWriteFinished ==
  /\ session.kind = "createAndWritableStream"
  /\ ws.finished
  /\ closes = 1
  /\ Len(session.chunks) >= 2

\* C5: the stream of openAndReadableStream has caused no close before its
\* 'end' and exactly one from it on, on the descriptor the helper opened; when
\* the close is issued the stream has ended and has no read pending.
ReadStreamAutoClose ==
  session.kind = "openAndReadableStream" =>
     /\ closes = (IF rs.endEmitted THEN 1 ELSE 0)
     /\ \A i \in 1..Len(queue) :
          queue[i].k = "hook" => queue[i].q = LargeObject_close(session.fd)
     /\ closes > 0 => (rs.ended /\ ~rs.reading /\ Outstanding("rs") = 0)

AutoReadEnded ==
  /\ session.kind = "openAndReadableStream"
  /\ rs.endEmitted
  /\ closes = 1
  /\ Len(rs.pushed) >= 1

\* C6: the size openAndReadableStream returned is the number of bytes its
\* stream has pushed when it ends, and the consumer has taken by 'end'.
SizeMatchesStream ==
  (session.kind = "openAndReadableStream" /\ rs.ended) =>
     /\ Len(rs.pushed) = session.size
     /\ rs.endEmitted => rs.consumed = session.size

SizedStreamEnded ==
  /\ session.kind = "openAndReadableStream"
  /\ rs.endEmitted
  /\ session.size = MaxLen
  /\ rs.consumed = MaxLen

\* C8: a stream never has two of its reads or writes in flight, and while a
\* write is in flight Writable has not been told it may send the next chunk.
OneCallPerStream ==
  /\ Outstanding("rs") <= 1
  /\ Outstanding("ws") <= 1
  /\ Outstanding("rs") = 1 => rs.reading
  /\ Outstanding("ws") = 1 => (ws.writing \/ ws.errors # <<>>)

ChunkWaitsForWrite ==
  /\ Outstanding("ws") = 1
  /\ ws.writing
  /\ ws.buffered # <<>>

\* The step in which a read of the ReadStream fails.
ReadFailed == Settles("rs") /\ reply'.err # NoErr

\* C9 as stated: a failed read becomes one 'error' event carrying the
\* executor's error, pushes nothing, does not end the stream, and nothing
\* is thrown.
ReadFailureNeverThrown ==
  [][ReadFailed =>
       /\ rs'.errors = Append(rs.errors, reply'.err)
       /\ rs'.pushed = rs.pushed
       /\ rs'.ended = rs.ended /\ rs'.eofs = rs.eofs
       /\ unhandled' = unhandled]_vars

\* C9 as amended: a failed read becomes one 'error' event carrying the
\* executor's error, pushes nothing and does not end the stream; nothing is
\* thrown when an 'error' listener is attached, and with none the emit throws
\* the error inside the promise callback, where nobody awaits it.
ReadFailureErrorEvent ==
  [][ReadFailed =>
       /\ rs'.errors = Append(rs.errors, reply'.err)
       /\ rs'.pushed = rs.pushed
       /\ rs'.ended = rs.ended /\ rs'.eofs = rs.eofs
       /\ unhandled' = (IF rs.listening THEN unhandled
                        ELSE Append(unhandled, reply'.err))]_vars

ReadFailedAfterData ==
  /\ rs.errors # <<>>
  /\ rs.listening
  /\ unhandled = <<>>
  /\ Len(rs.pushed) >= 1
  /\ ~rs.ended

\* The step in which the close of an auto-close listener fails.
AutoCloseFailed == Settles("hook") /\ reply'.err # NoErr

\* C10: a failed close of an auto-close listener is given to console.error and
\* nothing else: no 'error' event, no change to either stream or to what the
\* helper returned, nothing thrown.
AutoCloseFailureOnlyLogged ==
  [][AutoCloseFailed =>
       /\ log' = Append(log, reply'.err)
       /\ unhandled' = unhandled
       /\ rs' = rs /\ ws' = ws
       /\ session' = session]_vars

AutoCloseFailureLogged ==
  /\ log # <<>>
  /\ session.pc = "returned"
  /\ (rs.endEmitted \/ ws.finished)

\* A read that the store runs on an open descriptor: the bytes left from the
\* descriptor's position when the read arrives.
ReadArrives ==
  /\ Settles("caller")
  /\ Head(queue).q.op = "loread"
  /\ reply'.fromStore
  /\ Head(queue).q.a \in DOMAIN store.fd
  /\ store.fd[Head(queue).q.a].oid \in DOMAIN store.lo

Remaining ==
  LET d == store.fd[Head(queue).q.a]
  IN Max(0, Len(store.lo[d.oid]) - d.pos)

\* C11 as stated: a read asking for more than is left returns exactly what is
\* left and never fails for it, and after such a short read every later read on
\* the descriptor returns 0 bytes unless a seek or a write came in between.
ShortReadThenZero ==
  [][ReadArrives =>
       /\ ret'.ok
       /\ (Remaining < Head(queue).q.b => Len(ret'.data) = Remaining)
       /\ (Head(queue).q.a \in short.plain => Len(ret'.data) = 0)]_vars

\* C11 amended: the same, where a truncate in between also lifts the promise of
\* 0 bytes (a truncate beyond the end extends the object with zero bytes).
ShortReadThenZeroUnlessResized ==
  [][ReadArrives =>
       /\ ret'.ok
       /\ (Remaining < Head(queue).q.b => Len(ret'.data) = Remaining)
       /\ (Head(queue).q.a \in short.strict => Len(ret'.data) = 0)]_vars

\* A second read after a short one that returned bytes has itself come back.
ReadAfterShortRead ==
  /\ ret.op = "loread" /\ ret.ok /\ ret.data = <<>>
  /\ ret.a \in short.strict
  /\ store.fd[ret.a].pos >= 1

\* C12: every method call puts exactly one query on the connection, whether the
\* query succeeds or fails; a failed query rejects the call with the executor's
\* error and nothing is sent after the answer.
OneQueryPerCall ==
  /\ Len(queue) <= 1
  /\ (queue # <<>> => sent = 1 /\ reply = NoReply /\ ret = NoRet)
  /\ (queue = <<>> /\ ret.op # "none" =>
        /\ sent = 1
        /\ ret.ok = (reply.err = NoErr)
        /\ ret.err = reply.err)

\* A truncate was refused by the store and the call rejected after one query.
CallRejectedAfterOneQuery ==
  /\ queue = <<>> /\ sent = 1
  /\ ret.op = "lo_truncate64" /\ ~ret.ok /\ reply.fromStore

\* The queries still waiting on the connection, oldest first.
Waiting == [i \in 1..Len(queue) |-> queue[i].q]

\* C13: the operations called on one LargeObject reach the store in the order
\* of the calls: the queries run so far followed by the queries waiting are the
\* calls made, in call order.
CallOrderIsStoreOrder == order.executed \o Waiting = order.invoked

\* Three different calls were made back to back and the first of them has run
\* while the other two wait.
FirstCallRanFirst ==
  /\ order.invoked = <<LargeObject_write(0, <<0>>), LargeObject_size(0),
                       LargeObject_close(0)>>
  /\ order.executed = <<LargeObject_write(0, <<0>>)>>
  /\ Len(queue) = 2
  /\ ret.ok

\* C14: once a read of a ReadStream has come back with fewer bytes than it
\* asked for, the stream has no read in flight ever again, whatever the
\* consumer takes afterwards; so that short read stays its only one.
NoReadAfterShortRead ==
  rs.shorts >= 1 => (Outstanding("rs") = 0 /\ rs.shorts = 1)

\* Reads of one byte each ran into the end, and the consumer took everything.
ShortReadAfterFullReads ==
  /\ rs.shorts = 1
  /\ rs.hwm = 1
  /\ rs.consumed >= 2
  /\ rs.endEmitted
  /\ queue = <<>>

RECURSIVE Flatten(_)
Flatten(chunks) ==
  IF chunks = <<>> THEN <<>> ELSE Head(chunks) \o Flatten(Tail(chunks))

IsPrefix(a, b) == Len(a) <= Len(b) /\ a = SubSeq(b, 1, Len(a))

\* C15: the remote writes of a WriteStream are the chunks it was offered, one
\* write per chunk and in their order; while the stream has not errored every
\* offered chunk is written, buffered or still to come, and once it has
\* finished the fresh object holds the chunks one after the other.
WriteStreamWritesChunks ==
  ws.made =>
     /\ IsPrefix(ws.issued, session.chunks)
     /\ ws.errors = <<>> => ws.issued \o ws.buffered \o ws.todo = session.chunks
     /\ ws.finished => /\ ws.issued = session.chunks
                       /\ ObjectContent = Flatten(session.chunks)

\* Three chunks went through a manual WriteStream that has finished.
ThreeChunksWritten ==
  /\ session.kind = "getWritableStream"
  /\ ws.finished
  /\ ws.issued = <<<<1>>, <<0>>, <<1>>>>
  /\ ObjectContent = <<1, 0, 1>>

\* C16: a _read with a length that is not positive and a _write with a chunk
\* that is no Buffer throw at once: the call puts no query on the connection
\* and changes nothing of the stream but the mark of the throw, so the
\* callback of _write is not invoked.
MisuseFailsFast ==
  [][misuse' # misuse =>
       /\ queue' = queue
       /\ store' = store
       /\ (misuse'.read # misuse.read => rs' = [rs EXCEPT !.thrown = TRUE])
       /\ (misuse'.write # misuse.write => ws' = [ws EXCEPT !.thrown = TRUE])]_vars

\* A _write with a chunk that is no Buffer threw while a write was in flight.
MisusedWhileWriting ==
  /\ misuse.write
  /\ ws.thrown
  /\ Outstanding("ws") = 1
  /\ ws.calls = <<>>

\* C17: the callback of every _write whose remote write has settled was
\* invoked exactly once.
CallbackInvokedOnce == \A i \in DOMAIN ws.calls : ws.calls[i] = 1

\* An auto-closing helper has opened its descriptor and then failed: it
\* rejected, or its stream had an error.
AutoCloseHelperFailed ==
  /\ session.kind \in {"openAndReadableStream", "createAndWritableStream"}
  /\ DOMAIN store.fd # {}
  /\ session.pc = "rejected" \/ rs.errors # <<>> \/ ws.errors # <<>>

\* C18: when an auto-closing helper has failed after its open and nothing is
\* left to happen, a close of the descriptor has been issued.
AutoCloseNeverLeaks ==
  (AutoCloseHelperFailed /\ queue = <<>> /\ ~ENABLED NextStreams) => closes >= 1

\* C19: from the moment the listener of an auto-closing helper has issued its
\* close, the stream has no remote read or write in flight: all of them had
\* settled before, and none is sent afterwards.
AutoCloseAfterLastTransfer ==
  (session.kind \in {"openAndReadableStream", "createAndWritableStream"}
     /\ closes >= 1) =>
       /\ Outstanding("ws") = 0 /\ Outstanding("rs") = 0
       /\ Len(ws.calls) = Len(ws.issued)

\* The close of createAndWritableStream waits behind nothing of the stream.
AutoCloseIssuedAfterWrites ==
  /\ session.kind = "createAndWritableStream"
  /\ closes = 1
  /\ Outstanding("hook") = 1
  /\ Len(ws.calls) >= 2

====
